---- MODULE Spec2Model ----
(***************************************************************************)
(* Model of the RBAC authorization engine (accounts/models.py), the grant  *)
(* and role management endpoints (accounts/views.py, serializers.py), the  *)
(* seeding command (setup_rbac.py), the permission gates                   *)
(* (core/permissions.py), the tenant middlewares and the tenant context    *)
(* (tenants/middleware.py, core/production_middleware.py), the tenant      *)
(* registration (tenants/views.py, tenants/serializers.py) and the         *)
(* tenant-scoped library endpoints (library/views.py) of the UpSchool      *)
(* backend.                                                                *)
(* Record constructors list their fields in the order TLC keeps them.      *)
(***************************************************************************)
EXTENDS Integers, FiniteSets, Sequences, TLC

VARIABLES
    now,               \* timezone.now(), a logical clock
    permissions,       \* accounts.Permission rows: name -> [is_global]
    roles,             \* accounts.Role rows: name -> [tenant, role_type,
                       \*   parent_role]; Role.name is unique, so it is the key
    role_permissions,  \* accounts.RolePermission rows
    user_roles,        \* accounts.UserRole rows
    books,             \* library.Book rows, the id is the index
    borrowings,        \* library.BookBorrowing rows, the id is the index
    response,          \* the response to the last read request
    tenants,           \* core.Tenant rows: id -> [subdomain, is_active]
    inflight           \* the grant-creating requests being served:
                       \*   index -> the position of the request in its view

vars == <<now, permissions, roles, role_permissions, user_roles,
          books, borrowings, response, tenants, inflight>>

----------------------------------------------------------------------------
(* Bounds *)

MaxTime == 2
MaxEdges == 2
MaxRoles == 3
MaxBooks == 2
MaxBorrowings == 2
MaxAvailable == 2
MaxRequests == 2

----------------------------------------------------------------------------
(* Static data: tenants, schools, users *)

Null == -1

NoTenant == "none"
NoRole == "none"

Schools == {"schA", "schB"}

SchoolTenant(s) == IF s = "schA" THEN "A" ELSE "B"

Users == {"su", "a1", "b1"}

is_superuser(u) == u = "su"

UserTenant(u) ==
    CASE u = "a1" -> "A"
      [] u = "b1" -> "B"
      [] OTHER -> NoTenant

RoleNames == {"tenant_admin", "parent_role", "child_role", "teacher"}

SeededPermissions == {"schools.view_student", "schools.delete_student"}

PermissionNames == SeededPermissions \cup {"core.view_dashboard"}

ExpiryChoices == {Null, 1}

----------------------------------------------------------------------------
(* Results of Python calls: a returned value or a raised exception *)

Return(v) == [ok |-> TRUE, err |-> "", val |-> v]

Raise(e) == [ok |-> FALSE, err |-> e, val |-> {}]

----------------------------------------------------------------------------
(* accounts/models.py: edge validity *)

RolePermission_is_valid(rp) ==
    IF ~rp.is_active THEN FALSE
    ELSE IF rp.expires_at # Null /\ rp.expires_at < now THEN FALSE
    ELSE TRUE

UserRole_is_valid(ur) ==
    IF ~ur.is_active THEN FALSE
    ELSE IF ur.expires_at # Null /\ ur.expires_at < now THEN FALSE
    ELSE TRUE

----------------------------------------------------------------------------
(* accounts/models.py: User *)

\* self.user_roles.all()
UserRolesOf(u) == {ur \in user_roles : ur.user = u}

get_roles(u) == {ur.role : ur \in UserRolesOf(u)}

\* mutant of has_role: an assignment to a role also counts for the name of
\* the role's parent
has_role_ThroughParent(u, role_name) ==
    \E ur \in UserRolesOf(u) :
        \/ ur.role = role_name
        \/ roles[ur.role].parent_role = role_name
has_role(u, role_name) ==
    \E ur \in UserRolesOf(u) : ur.role = role_name

\* mutant of has_permission: the join to the permission name is dropped
has_permission_IgnoresName(u, permission_name) ==
    \E ur \in UserRolesOf(u) :
        \E rp \in role_permissions : rp.role = ur.role

has_permission(u, permission_name) ==
    \E ur \in UserRolesOf(u) :
        \E rp \in role_permissions :
            rp.role = ur.role /\ rp.permission = permission_name

get_permissions(u) ==
    {p \in DOMAIN permissions :
        \/ \E rp \in role_permissions :
              /\ rp.permission = p
              /\ \E ur \in user_roles : ur.role = rp.role /\ ur.user = u
        \/ permissions[p].is_global}

----------------------------------------------------------------------------
(* accounts/models.py: Role *)

\* Role declares no `permissions` field or reverse accessor (the reverse
\* accessors are role_permissions, user_roles and child_roles), so the
\* attribute lookup self.permissions raises AttributeError.
Role_permissions_all(r) == Raise("AttributeError")

RECURSIVE WalkParents(_, _)
WalkParents(parent, perms) ==
    IF parent = NoRole THEN Return(perms)
    ELSE LET more == Role_permissions_all(parent) IN
         IF ~more.ok THEN more
         ELSE WalkParents(roles[parent].parent_role, perms \cup more.val)

get_all_permissions(r) ==
    LET own == Role_permissions_all(r) IN
    IF ~own.ok THEN own
    ELSE WalkParents(roles[r].parent_role, own.val)

----------------------------------------------------------------------------
(* core/permissions.py: gates *)

IsTenantAdmin(u) ==
    IF is_superuser(u) THEN TRUE ELSE has_role(u, "tenant_admin")

IsTenantUser(u) ==
    IF is_superuser(u) THEN TRUE
    ELSE \E ur \in UserRolesOf(u) : ur.is_active

IsTenantUser_object(u, objTenant) ==
    IF is_superuser(u) THEN TRUE ELSE objTenant = UserTenant(u)

----------------------------------------------------------------------------
(* accounts/views.py: querysets *)

RoleQueryset(u) ==
    IF is_superuser(u) THEN DOMAIN roles
    ELSE {r \in DOMAIN roles :
            roles[r].tenant = UserTenant(u) \/ roles[r].role_type = "system"}

RolePermissionQueryset(u) ==
    IF is_superuser(u) THEN role_permissions
    ELSE {rp \in role_permissions : roles[rp.role].tenant = UserTenant(u)}

UserRoleQueryset(u) ==
    IF is_superuser(u) THEN user_roles
    ELSE {ur \in user_roles : UserTenant(ur.user) = UserTenant(u)}

UserQueryset(u) ==
    IF is_superuser(u) THEN Users
    ELSE {x \in Users : UserTenant(x) = UserTenant(u)}

EdgeCount == Cardinality(role_permissions) + Cardinality(user_roles)

----------------------------------------------------------------------------
(* The clock *)

Tick ==
    /\ now < MaxTime
    /\ now' = now + 1
    /\ UNCHANGED <<permissions, roles, role_permissions, user_roles,
                   books, borrowings, response,
                   tenants, inflight>>

----------------------------------------------------------------------------
(* accounts/views.py: PermissionViewSet (ModelViewSet create) *)

PermissionCreate(caller, name, global) ==
    /\ IsTenantAdmin(caller)
    /\ name \notin DOMAIN permissions
    /\ permissions' = [p \in DOMAIN permissions \cup {name} |->
                          IF p = name THEN [is_global |-> global]
                          ELSE permissions[p]]
    /\ UNCHANGED <<now, roles, role_permissions, user_roles,
                   books, borrowings, response,
                   tenants, inflight>>

----------------------------------------------------------------------------
(* accounts/views.py: RolePermissionViewSet (ModelViewSet CRUD) *)

\* mutant of RolePermissionCreate: the uniqueness of (role, permission) is
\* not enforced
RolePermissionCreate_NoUniqueness(caller, r, p, active, exp) ==
    /\ IsTenantAdmin(caller)
    /\ r \in DOMAIN roles
    /\ p \in DOMAIN permissions
    /\ EdgeCount < MaxEdges
    /\ role_permissions' = role_permissions \cup
           {[is_active |-> active, expires_at |-> exp, role |-> r,
             permission |-> p]}
    /\ UNCHANGED <<now, permissions, roles, user_roles,
                   books, borrowings, response,
                   tenants, inflight>>
RolePermissionCreate(caller, r, p, active, exp) ==
    /\ IsTenantAdmin(caller)
    /\ r \in DOMAIN roles
    /\ p \in DOMAIN permissions
    /\ EdgeCount < MaxEdges
    \* UniqueTogetherValidator on (role, permission)
    /\ ~\E rp \in role_permissions : rp.role = r /\ rp.permission = p
    /\ role_permissions' = role_permissions \cup
           {[is_active |-> active, expires_at |-> exp, role |-> r,
             permission |-> p]}
    /\ UNCHANGED <<now, permissions, roles, user_roles,
                   books, borrowings, response,
                   tenants, inflight>>

RolePermissionUpdate(caller, rp, active, exp) ==
    /\ IsTenantAdmin(caller)
    /\ rp \in RolePermissionQueryset(caller)
    /\ role_permissions' = (role_permissions \ {rp}) \cup
           {[rp EXCEPT !.is_active = active, !.expires_at = exp]}
    /\ role_permissions' # role_permissions
    /\ UNCHANGED <<now, permissions, roles, user_roles,
                   books, borrowings, response,
                   tenants, inflight>>

RolePermissionDestroy(caller, rp) ==
    /\ IsTenantAdmin(caller)
    /\ rp \in RolePermissionQueryset(caller)
    /\ role_permissions' = role_permissions \ {rp}
    /\ UNCHANGED <<now, permissions, roles, user_roles,
                   books, borrowings, response,
                   tenants, inflight>>

----------------------------------------------------------------------------
(* accounts/views.py: UserRoleViewSet (ModelViewSet CRUD) *)

UserRoleCreate(caller, u, r, exp) ==
    /\ IsTenantAdmin(caller)
    /\ r \in DOMAIN roles
    /\ EdgeCount < MaxEdges
    \* UniqueTogetherValidator on (user, role)
    /\ ~\E ur \in user_roles : ur.user = u /\ ur.role = r
    /\ user_roles' = user_roles \cup
           {[is_active |-> TRUE, expires_at |-> exp, user |-> u, role |-> r]}
    /\ UNCHANGED <<now, permissions, roles, role_permissions,
                   books, borrowings, response,
                   tenants, inflight>>

UserRoleUpdate(caller, ur, active, exp) ==
    /\ IsTenantAdmin(caller)
    /\ ur \in UserRoleQueryset(caller)
    /\ user_roles' = (user_roles \ {ur}) \cup
           {[ur EXCEPT !.is_active = active, !.expires_at = exp]}
    /\ user_roles' # user_roles
    /\ UNCHANGED <<now, permissions, roles, role_permissions,
                   books, borrowings, response,
                   tenants, inflight>>

UserRoleDestroy(caller, ur) ==
    /\ IsTenantAdmin(caller)
    /\ ur \in UserRoleQueryset(caller)
    /\ user_roles' = user_roles \ {ur}
    /\ UNCHANGED <<now, permissions, roles, role_permissions,
                   books, borrowings, response,
                   tenants, inflight>>

----------------------------------------------------------------------------
(* The loop `for permission_id in permission_ids: ... create(...)` shared   *)
(* by RoleViewSet.assign_permissions and RoleCreateSerializer.create: an   *)
(* unknown id is skipped (Permission.DoesNotExist is caught), a second row  *)
(* for the same (role, permission) violates unique_together and raises      *)
(* IntegrityError, which ends the loop; the rows created before it stay     *)
(* (the database runs in autocommit mode).                                  *)

RECURSIVE CreateGrants(_, _, _)
CreateGrants(r, ids, rows) ==
    IF ids = <<>> THEN Return(rows)
    ELSE LET p == Head(ids) IN
         IF p \notin DOMAIN permissions
         THEN CreateGrants(r, Tail(ids), rows)
         ELSE IF \E rp \in rows : rp.role = r /\ rp.permission = p
         THEN [ok |-> FALSE, err |-> "IntegrityError", val |-> rows]
         ELSE CreateGrants(r, Tail(ids),
                  rows \cup {[is_active |-> TRUE, expires_at |-> Null,
                              role |-> r, permission |-> p]})

PermissionIdLists ==
    {<<>>} \cup {<<p>> : p \in PermissionNames \cup {"unknown"}}
           \cup {<<p, q>> : p, q \in SeededPermissions}

assign_permissions(caller, r, permission_ids) ==
    /\ IsTenantAdmin(caller)
    /\ r \in RoleQueryset(caller)
    /\ LET kept == {rp \in role_permissions : rp.role # r}
           res == CreateGrants(r, permission_ids, kept)
       IN /\ Cardinality(res.val) + Cardinality(user_roles) <= MaxEdges
          /\ role_permissions' = res.val
    /\ UNCHANGED <<now, permissions, roles, user_roles,
                   books, borrowings, response,
                   tenants, inflight>>

----------------------------------------------------------------------------
(* accounts/views.py, accounts/serializers.py: RoleViewSet (ModelViewSet)  *)

\* role_type as sent by the clients of the endpoint (the field default)
RoleTypeChoices == {"tenant"}

RoleCreate(caller, name, rtype, parent, permission_ids) ==
    /\ IsTenantAdmin(caller)
    /\ Cardinality(DOMAIN roles) < MaxRoles
    \* UniqueValidator on Role.name
    /\ name \notin DOMAIN roles
    /\ parent \in DOMAIN roles \cup {NoRole}
    /\ roles' = [n \in DOMAIN roles \cup {name} |->
                    IF n = name
                    THEN [parent_role |-> parent, tenant |-> UserTenant(caller),
                          role_type |-> rtype]
                    ELSE roles[n]]
    /\ LET res == CreateGrants(name, permission_ids, role_permissions)
       IN /\ Cardinality(res.val) + Cardinality(user_roles) <= MaxEdges
          /\ role_permissions' = res.val
    /\ UNCHANGED <<now, permissions, user_roles, books, borrowings, response,
                   tenants, inflight>>

RoleUpdate(caller, r, parent) ==
    /\ IsTenantAdmin(caller)
    /\ r \in RoleQueryset(caller)
    /\ parent \in DOMAIN roles \cup {NoRole}
    /\ parent # roles[r].parent_role
    /\ roles' = [roles EXCEPT ![r].parent_role = parent]
    /\ UNCHANGED <<now, permissions, role_permissions, user_roles,
                   books, borrowings, response,
                   tenants, inflight>>

RoleDestroy(caller, r) ==
    /\ IsTenantAdmin(caller)
    /\ r \in RoleQueryset(caller)
    \* parent_role is on_delete=SET_NULL; the edges are on_delete=CASCADE
    /\ roles' = [n \in DOMAIN roles \ {r} |->
                    IF roles[n].parent_role = r
                    THEN [roles[n] EXCEPT !.parent_role = NoRole]
                    ELSE roles[n]]
    /\ role_permissions' = {rp \in role_permissions : rp.role # r}
    /\ user_roles' = {ur \in user_roles : ur.role # r}
    /\ UNCHANGED <<now, permissions, books, borrowings, response,
                   tenants, inflight>>

----------------------------------------------------------------------------
(* library/models.py, library/views.py: books and borrowings *)

\* Book.save(): a falsy available_copies is replaced by copies
Book_save(b) ==
    IF b.available_copies = 0 THEN [b EXCEPT !.available_copies = b.copies]
    ELSE b

BookIds == 1..Len(books)

BorrowingIds == 1..Len(borrowings)

BookTenant(id) == SchoolTenant(books[id].school)

BookQueryset(u) ==
    IF is_superuser(u) THEN BookIds
    ELSE {id \in BookIds : BookTenant(id) = UserTenant(u)}

BorrowingQueryset(u) ==
    IF is_superuser(u) THEN BorrowingIds
    ELSE {id \in BorrowingIds :
            SchoolTenant(borrowings[id].school) = UserTenant(u)}

\* ModelViewSet.create with BookSerializer: available_copies is read-only,
\* so the row gets the field default 1
BookCreate(caller, school, copies) ==
    /\ IsTenantUser(caller)
    /\ Len(books) < MaxBooks
    /\ books' = Append(books,
           Book_save([available_copies |-> 1, copies |-> copies,
                      school |-> school, status |-> "available"]))
    /\ UNCHANGED <<now, permissions, roles, role_permissions, user_roles,
                   borrowings, response,
                   tenants, inflight>>

\* BookViewSet.borrow: pk is the book of the URL, dataBook the `book` field
\* of the request body
borrow(caller, pk, dataBook, due) ==
    /\ IsTenantUser(caller)
    /\ pk \in BookQueryset(caller)
    /\ IsTenantUser_object(caller, BookTenant(pk))
    /\ dataBook \in BookIds
    /\ books[pk].available_copies > 0
    /\ Len(borrowings) < MaxBorrowings
    /\ borrowings' = Append(borrowings,
           [school |-> books[pk].school, status |-> "borrowed",
            book |-> dataBook, due_date |-> due])
    /\ LET left == books[pk].available_copies - 1
           b == [books[pk] EXCEPT
                    !.available_copies = left,
                    !.status = IF left = 0 THEN "borrowed" ELSE @]
       IN books' = [books EXCEPT ![pk] = Book_save(b)]
    /\ UNCHANGED <<now, permissions, roles, role_permissions, user_roles,
                   response,
                   tenants, inflight>>

return_book(caller, id) ==
    /\ IsTenantUser(caller)
    /\ id \in BorrowingQueryset(caller)
    /\ IsTenantUser_object(caller, SchoolTenant(borrowings[id].school))
    /\ books[borrowings[id].book].available_copies < MaxAvailable
    /\ borrowings' = [borrowings EXCEPT ![id].status = "returned"]
    /\ LET bk == borrowings[id].book
           b == [books[bk] EXCEPT
                    !.available_copies = @ + 1,
                    !.status = IF @ = "borrowed" THEN "available" ELSE @]
       IN books' = [books EXCEPT ![bk] = Book_save(b)]
    /\ UNCHANGED <<now, permissions, roles, role_permissions, user_roles,
                   response,
                   tenants, inflight>>

----------------------------------------------------------------------------
(* Read endpoints: the response of the request is recorded *)

Respond(endpoint, caller, status, bookIds, userIds) ==
    /\ response' = [books |-> bookIds, caller |-> caller, status |-> status,
                    endpoint |-> endpoint, users |-> userIds]
    /\ UNCHANGED <<now, permissions, roles, role_permissions, user_roles,
                   books, borrowings,
                   tenants, inflight>>

BookList(caller) ==
    /\ IsTenantUser(caller)
    /\ Respond("books/", caller, 200, BookQueryset(caller), {})

BookAvailable(caller) ==
    /\ IsTenantUser(caller)
    /\ Respond("books/available", caller, 200,
               {id \in BookQueryset(caller) : books[id].status = "available"},
               {})

\* BookViewSet.overdue queries BookBorrowing.objects directly
BookOverdue(caller) ==
    /\ IsTenantUser(caller)
    /\ Respond("books/overdue", caller, 200,
               {borrowings[i].book : i \in {j \in BorrowingIds :
                    /\ borrowings[j].status = "borrowed"
                    /\ borrowings[j].due_date < now}},
               {})

\* retrieve: get_object() looks pk up in get_queryset() (404 when absent),
\* then checks the object permission (403 when refused)
BookRetrieve(caller, pk) ==
    /\ IsTenantUser(caller)
    /\ pk \in BookIds
    /\ IF pk \notin BookQueryset(caller)
       THEN Respond("books/pk", caller, 404, {}, {})
       ELSE IF ~IsTenantUser_object(caller, BookTenant(pk))
       THEN Respond("books/pk", caller, 403, {}, {})
       ELSE Respond("books/pk", caller, 200, {pk}, {})

UserList(caller) ==
    /\ IsTenantUser(caller)
    /\ Respond("users/", caller, 200, {}, UserQueryset(caller))

UserRetrieve(caller, pk) ==
    /\ IsTenantUser(caller)
    /\ IF pk \notin UserQueryset(caller)
       THEN Respond("users/pk", caller, 404, {}, {})
       ELSE IF ~IsTenantUser_object(caller, UserTenant(pk))
       THEN Respond("users/pk", caller, 403, {}, {})
       ELSE Respond("users/pk", caller, 200, {}, {pk})

----------------------------------------------------------------------------
(* Specifications *)

NoResponse == [books |-> {}, caller |-> "none", status |-> 0,
               endpoint |-> "none", users |-> {}]

\* Tenant A answers to the subdomain "a", tenant B to "b"
ActiveTenants ==
    [t \in {"A", "B"} |->
        [is_active |-> TRUE, subdomain |-> IF t = "A" THEN "a" ELSE "b"]]

SeededCatalog == [p \in SeededPermissions |-> [is_global |-> FALSE]]

TenantRole(parent) ==
    [parent_role |-> parent, tenant |-> "A", role_type |-> "tenant"]

\* Ledger: a role graph built beforehand (child_role under tenant_admin,
\* both of tenant A), an empty ledger.
InitLedger ==
    /\ now = 0
    /\ permissions = SeededCatalog
    /\ roles = [n \in {"tenant_admin", "child_role"} |->
                   IF n = "child_role" THEN TenantRole("tenant_admin")
                   ELSE TenantRole(NoRole)]
    /\ role_permissions = {}
    /\ user_roles = {}
    /\ books = <<>>
    /\ borrowings = <<>>
    /\ response = NoResponse
    /\ tenants = ActiveTenants
    /\ inflight = <<>>

NextLedger ==
    \/ Tick
    \/ \E caller \in Users, g \in BOOLEAN :
          PermissionCreate(caller, "core.view_dashboard", g)
    \/ \E caller \in Users, r \in DOMAIN roles, p \in DOMAIN permissions,
          a \in BOOLEAN, e \in ExpiryChoices :
          RolePermissionCreate(caller, r, p, a, e)
    \/ \E caller \in Users, rp \in role_permissions,
          a \in BOOLEAN, e \in ExpiryChoices :
          RolePermissionUpdate(caller, rp, a, e)
    \/ \E caller \in Users, rp \in role_permissions :
          RolePermissionDestroy(caller, rp)
    \/ \E caller \in Users, u \in Users, r \in DOMAIN roles,
          e \in ExpiryChoices :
          UserRoleCreate(caller, u, r, e)
    \/ \E caller \in Users, ur \in user_roles,
          a \in BOOLEAN, e \in ExpiryChoices :
          UserRoleUpdate(caller, ur, a, e)
    \/ \E caller \in Users, ur \in user_roles :
          UserRoleDestroy(caller, ur)
    \/ \E caller \in Users, r \in DOMAIN roles, ids \in PermissionIdLists :
          assign_permissions(caller, r, ids)

SpecLedger == InitLedger /\ [][NextLedger]_vars

\* Role graph: the tenant_admin role of tenant A, held by its admin a1.
InitGraph ==
    /\ now = 0
    /\ permissions = SeededCatalog
    /\ roles = [n \in {"tenant_admin"} |-> TenantRole(NoRole)]
    /\ role_permissions = {}
    /\ user_roles = {[is_active |-> TRUE, expires_at |-> Null,
                      user |-> "a1", role |-> "tenant_admin"]}
    /\ books = <<>>
    /\ borrowings = <<>>
    /\ response = NoResponse
    /\ tenants = ActiveTenants
    /\ inflight = <<>>

NextGraph ==
    \/ \E caller \in Users, name \in RoleNames, t \in RoleTypeChoices,
          parent \in RoleNames \cup {NoRole},
          ids \in {<<>>, <<"schools.view_student">>, <<"unknown">>} :
          RoleCreate(caller, name, t, parent, ids)
    \/ \E caller \in Users, r \in DOMAIN roles,
          parent \in RoleNames \cup {NoRole} :
          RoleUpdate(caller, r, parent)
    \/ \E caller \in Users, r \in DOMAIN roles :
          RoleDestroy(caller, r)

SpecGraph == InitGraph /\ [][NextGraph]_vars

\* Library: each tenant has one school; a1 and b1 each hold an active role.
InitLibrary ==
    /\ now = 0
    /\ permissions = SeededCatalog
    /\ roles = [n \in {"teacher", "staff"} |->
                   [parent_role |-> NoRole,
                    tenant |-> IF n = "teacher" THEN "A" ELSE "B",
                    role_type |-> "tenant"]]
    /\ role_permissions = {}
    /\ user_roles = {[is_active |-> TRUE, expires_at |-> Null,
                      user |-> "a1", role |-> "teacher"],
                     [is_active |-> TRUE, expires_at |-> Null,
                      user |-> "b1", role |-> "staff"]}
    /\ books = <<>>
    /\ borrowings = <<>>
    /\ response = NoResponse
    /\ tenants = ActiveTenants
    /\ inflight = <<>>

NextLibrary ==
    \/ Tick
    \/ \E caller \in Users, s \in Schools, c \in 1..MaxAvailable :
          BookCreate(caller, s, c)
    \/ \E caller \in Users, pk \in BookIds, b \in BookIds :
          borrow(caller, pk, b, 1)
    \/ \E caller \in Users, id \in BorrowingIds : return_book(caller, id)
    \/ \E caller \in Users : BookList(caller)
    \/ \E caller \in Users : BookAvailable(caller)
    \/ \E caller \in Users : BookOverdue(caller)
    \/ \E caller \in Users, pk \in BookIds : BookRetrieve(caller, pk)
    \/ \E caller \in Users : UserList(caller)
    \/ \E caller \in Users, pk \in Users : UserRetrieve(caller, pk)

SpecLibrary == InitLibrary /\ [][NextLibrary]_vars

----------------------------------------------------------------------------
(* accounts/management/commands/setup_rbac.py: seeding of the system roles *)

\* Permission.permission_type of the permissions of the catalog
permission_type(p) ==
    IF "permission_type" \in DOMAIN permissions[p]
    THEN permissions[p].permission_type
    ELSE IF p \in {"schools.view_student", "core.view_dashboard"} THEN "view"
    ELSE "delete"

SystemRole == [parent_role |-> NoRole, tenant |-> NoTenant,
               role_type |-> "system"]

\* RolePermission.objects.get_or_create(role, permission,
\* defaults={'is_active': True}) for each permission of perms: a pair that
\* has a row keeps it, a pair without one gets an active row
GetOrCreateGrants(r, perms, rows) ==
    rows \cup {[is_active |-> TRUE, expires_at |-> Null, role |-> r,
                permission |-> p] :
                  p \in {q \in perms :
                            ~\E rp \in rows : rp.role = r /\ rp.permission = q}}

create_system_roles ==
    /\ roles' = [n \in DOMAIN roles \cup {"super_admin", "system_admin"} |->
                    IF n \in DOMAIN roles THEN roles[n] ELSE SystemRole]
    /\ LET all_permissions == DOMAIN permissions
           view_permissions ==
               {p \in DOMAIN permissions : permission_type(p) = "view"}
       IN role_permissions' =
              GetOrCreateGrants("system_admin", view_permissions,
                  GetOrCreateGrants("super_admin", all_permissions,
                                    role_permissions))
    /\ roles' # roles \/ role_permissions' # role_permissions
    /\ UNCHANGED <<now, permissions, user_roles, books, borrowings, response,
                   tenants, inflight>>

----------------------------------------------------------------------------
(* The create endpoints of the edges when the pair already has a row: the  *)
(* UniqueTogetherValidator that ModelSerializer derives from               *)
(* unique_together fails, the answer is 400 and nothing is written.        *)

RolePermissionCreateDuplicate(caller, r, p) ==
    /\ IsTenantAdmin(caller)
    /\ \E rp \in role_permissions : rp.role = r /\ rp.permission = p
    /\ Respond("role-permissions/", caller, 400, {}, {})

UserRoleCreateDuplicate(caller, u, r) ==
    /\ IsTenantAdmin(caller)
    /\ \E ur \in user_roles : ur.user = u /\ ur.role = r
    /\ Respond("user-roles/", caller, 400, {}, {})

----------------------------------------------------------------------------
(* Attaching and assigning only: seeding, role creation with               *)
(* permission_ids, the two create endpoints (is_active left at its         *)
(* default) and assign_permissions, from the tenant_admin role of tenant A *)
(* and an empty ledger.                                                    *)

InitAttach ==
    /\ now = 0
    /\ permissions = SeededCatalog
    /\ roles = [n \in {"tenant_admin"} |-> TenantRole(NoRole)]
    /\ role_permissions = {}
    /\ user_roles = {}
    /\ books = <<>>
    /\ borrowings = <<>>
    /\ response = NoResponse
    /\ tenants = ActiveTenants
    /\ inflight = <<>>

NextAttach ==
    \/ create_system_roles
    \/ \E caller \in Users, ids \in PermissionIdLists :
          RoleCreate(caller, "teacher", "tenant", NoRole, ids)
    \/ \E caller \in Users, r \in DOMAIN roles, p \in DOMAIN permissions,
          e \in ExpiryChoices :
          RolePermissionCreate(caller, r, p, TRUE, e)
    \/ \E caller \in Users, r \in DOMAIN roles, p \in DOMAIN permissions :
          RolePermissionCreateDuplicate(caller, r, p)
    \/ \E caller \in Users, u \in Users, r \in DOMAIN roles,
          e \in ExpiryChoices :
          UserRoleCreate(caller, u, r, e)
    \/ \E caller \in Users, u \in Users, r \in DOMAIN roles :
          UserRoleCreateDuplicate(caller, u, r)
    \/ \E caller \in Users, r \in DOMAIN roles, ids \in PermissionIdLists :
          assign_permissions(caller, r, ids)

SpecAttach == InitAttach /\ [][NextAttach]_vars

----------------------------------------------------------------------------
(* Concurrent grant creation. The database runs in autocommit mode and no  *)
(* view opens a transaction, so a request is one step per SQL statement    *)
(* and the statements of the requests in flight interleave.                *)

Request(view, caller, r, target, ids, pc, status) ==
    [role |-> r, caller |-> caller, ids |-> ids, status |-> status,
     view |-> view, target |-> target, pc |-> pc]

ActiveGrant(r, p) ==
    [is_active |-> TRUE, expires_at |-> Null, role |-> r, permission |-> p]

ActiveAssignment(u, r) ==
    [is_active |-> TRUE, expires_at |-> Null, user |-> u, role |-> r]

\* RolePermissionViewSet create, serializer.is_valid(): the SELECT of the
\* UniqueTogetherValidator; 400 when the pair has a row
RolePermissionCreate_is_valid(caller, r, p) ==
    /\ IsTenantAdmin(caller)
    /\ Len(inflight) < MaxRequests
    /\ r \in DOMAIN roles
    /\ p \in DOMAIN permissions
    /\ inflight' = Append(inflight,
           IF \E rp \in role_permissions : rp.role = r /\ rp.permission = p
           THEN Request("role-permissions/", caller, r, p, <<>>, "done", 400)
           ELSE Request("role-permissions/", caller, r, p, <<>>,
                        "validated", 0))
    /\ UNCHANGED <<now, permissions, roles, role_permissions, user_roles,
                   books, borrowings, response, tenants>>

\* RolePermissionViewSet create, serializer.save(): the INSERT; the unique
\* index on (role, permission) raises IntegrityError, which nothing
\* catches, so the request ends as a server error
RolePermissionCreate_save(i) ==
    /\ inflight[i].view = "role-permissions/"
    /\ inflight[i].pc = "validated"
    /\ LET r == inflight[i].role
           p == inflight[i].target
       IN IF \E rp \in role_permissions : rp.role = r /\ rp.permission = p
          THEN /\ inflight' = [inflight EXCEPT ![i].pc = "done",
                                               ![i].status = 500]
               /\ UNCHANGED role_permissions
          ELSE /\ role_permissions' = role_permissions \cup {ActiveGrant(r, p)}
               /\ inflight' = [inflight EXCEPT ![i].pc = "done",
                                               ![i].status = 201]
    /\ UNCHANGED <<now, permissions, roles, user_roles,
                   books, borrowings, response, tenants>>

\* UserRoleViewSet create with UserRoleCreateSerializer, is_valid()
UserRoleCreate_is_valid(caller, u, r) ==
    /\ IsTenantAdmin(caller)
    /\ Len(inflight) < MaxRequests
    /\ r \in DOMAIN roles
    /\ inflight' = Append(inflight,
           IF \E ur \in user_roles : ur.user = u /\ ur.role = r
           THEN Request("user-roles/", caller, r, u, <<>>, "done", 400)
           ELSE Request("user-roles/", caller, r, u, <<>>, "validated", 0))
    /\ UNCHANGED <<now, permissions, roles, role_permissions, user_roles,
                   books, borrowings, response, tenants>>

\* UserRoleCreateSerializer.create: super().create() runs the INSERT
UserRoleCreate_save(i) ==
    /\ inflight[i].view = "user-roles/"
    /\ inflight[i].pc = "validated"
    /\ LET r == inflight[i].role
           u == inflight[i].target
       IN IF \E ur \in user_roles : ur.user = u /\ ur.role = r
          THEN /\ inflight' = [inflight EXCEPT ![i].pc = "done",
                                               ![i].status = 500]
               /\ UNCHANGED user_roles
          ELSE /\ user_roles' = user_roles \cup {ActiveAssignment(u, r)}
               /\ inflight' = [inflight EXCEPT ![i].pc = "done",
                                               ![i].status = 201]
    /\ UNCHANGED <<now, permissions, roles, role_permissions,
                   books, borrowings, response, tenants>>

\* RoleViewSet.assign_permissions, first statement:
\* RolePermission.objects.filter(role=role).delete()
assign_permissions_delete(caller, r, permission_ids) ==
    /\ IsTenantAdmin(caller)
    /\ Len(inflight) < MaxRequests
    /\ r \in RoleQueryset(caller)
    /\ role_permissions' = {rp \in role_permissions : rp.role # r}
    /\ inflight' = Append(inflight,
           Request("assign_permissions/", caller, r, "", permission_ids,
                   "creating", 0))
    /\ UNCHANGED <<now, permissions, roles, user_roles,
                   books, borrowings, response, tenants>>

\* RoleViewSet.assign_permissions, one turn of the loop: an unknown id is
\* skipped, RolePermission.objects.create() runs the INSERT; after the last
\* id the response is 200
assign_permissions_create(i) ==
    /\ inflight[i].view = "assign_permissions/"
    /\ inflight[i].pc = "creating"
    /\ LET r == inflight[i].role
           ids == inflight[i].ids
       IN IF ids = <<>>
          THEN /\ inflight' = [inflight EXCEPT ![i].pc = "done",
                                               ![i].status = 200]
               /\ UNCHANGED role_permissions
          ELSE IF Head(ids) \notin DOMAIN permissions
          THEN /\ inflight' = [inflight EXCEPT ![i].ids = Tail(ids)]
               /\ UNCHANGED role_permissions
          ELSE IF \E rp \in role_permissions :
                     rp.role = r /\ rp.permission = Head(ids)
          THEN /\ inflight' = [inflight EXCEPT ![i].pc = "done",
                                               ![i].status = 500]
               /\ UNCHANGED role_permissions
          ELSE /\ role_permissions' =
                      role_permissions \cup {ActiveGrant(r, Head(ids))}
               /\ inflight' = [inflight EXCEPT ![i].ids = Tail(ids)]
    /\ UNCHANGED <<now, permissions, roles, user_roles,
                   books, borrowings, response, tenants>>

\* The id lists of the concurrent assign_permissions requests (no id twice)
RacePermissionIdLists ==
    {<<"schools.view_student">>, <<"unknown", "schools.view_student">>,
     <<"schools.view_student", "schools.delete_student">>}

InitRace ==
    /\ now = 0
    /\ permissions = SeededCatalog
    /\ roles = [n \in {"tenant_admin"} |-> TenantRole(NoRole)]
    /\ role_permissions = {}
    /\ user_roles = {}
    /\ books = <<>>
    /\ borrowings = <<>>
    /\ response = NoResponse
    /\ tenants = ActiveTenants
    /\ inflight = <<>>

NextRace ==
    \/ \E caller \in Users, r \in DOMAIN roles, p \in DOMAIN permissions :
          RolePermissionCreate_is_valid(caller, r, p)
    \/ \E i \in DOMAIN inflight : RolePermissionCreate_save(i)
    \/ \E caller \in Users, u \in Users, r \in DOMAIN roles :
          UserRoleCreate_is_valid(caller, u, r)
    \/ \E i \in DOMAIN inflight : UserRoleCreate_save(i)
    \/ \E caller \in Users, r \in DOMAIN roles,
          ids \in RacePermissionIdLists :
          assign_permissions_delete(caller, r, ids)
    \/ \E i \in DOMAIN inflight : assign_permissions_create(i)

SpecRace == InitRace /\ [][NextRace]_vars

----------------------------------------------------------------------------
(* accounts/models.py: Role.has_permission *)

\* get_all_permissions() returns a list (or raises); a list has no
\* filter(), so the call raises AttributeError in either case
Role_has_permission(r, permission_name) ==
    LET all == get_all_permissions(r) IN
    IF ~all.ok THEN all ELSE Raise("AttributeError")

----------------------------------------------------------------------------
(* core/permissions.py: the gate classes, for any principal *)

Principals == Users \cup {"anon"}

\* AnonymousUser: is_authenticated and is_superuser are both False
is_authenticated(u) == u # "anon"

\* User.user_type (read only after the is_authenticated test)
user_type(u) ==
    CASE u = "a1" -> "teacher"
      [] u = "b1" -> "student"
      [] OTHER -> "admin"

Absent == "absent"

None == ""

\* A view as the gate sees it. exposes tells where its model is declared:
\* "model" (a model attribute), "queryset" (a queryset attribute),
\* "get_queryset" (a generic view that only overrides get_queryset(), as
\* the ViewSets of this repository do: the queryset attribute it inherits
\* from GenericAPIView is None) or "none" (a plain APIView).
ViewActions == {"list", "retrieve", "create", "update", "partial_update",
                "destroy", "borrow"}

ViewMethod(action) ==
    CASE action \in {"list", "retrieve"} -> "GET"
      [] action = "update" -> "PUT"
      [] action = "partial_update" -> "PATCH"
      [] action = "destroy" -> "DELETE"
      [] OTHER -> "POST"

Views ==
    {[action |-> a, method |-> ViewMethod(a), exposes |-> e,
      app_label |-> "schools", model_name |-> "student"] :
        a \in ViewActions,
        e \in {"model", "queryset", "get_queryset", "none"}}

SAFE_METHODS == {"GET", "HEAD", "OPTIONS"}

get_required_permission(action) ==
    CASE action = "list" -> "view"
      [] action = "retrieve" -> "view"
      [] action = "create" -> "create"
      [] action = "update" -> "update"
      [] action = "partial_update" -> "update"
      [] action = "destroy" -> "delete"
      [] OTHER -> "view"

\* hasattr(view, 'queryset') is true of every generic view; when the
\* attribute is None, view.queryset.model raises AttributeError
get_model_name(view) ==
    IF view.exposes = "model" THEN Return(view.model_name)
    ELSE IF view.exposes = "queryset" THEN Return(view.model_name)
    ELSE IF view.exposes = "get_queryset" THEN Raise("AttributeError")
    ELSE Return(None)

get_app_label(view) ==
    IF view.exposes = "model" THEN Return(view.app_label)
    ELSE IF view.exposes = "queryset" THEN Return(view.app_label)
    ELSE IF view.exposes = "get_queryset" THEN Raise("AttributeError")
    ELSE Return(None)

\* HasPermission: "Build permission name"
HasPermission_permission_name(view, permission_name) ==
    LET required_permission == get_required_permission(view.action) IN
    IF permission_name # None THEN Return(permission_name)
    ELSE LET app_label == get_app_label(view) IN
         IF ~app_label.ok THEN app_label
         ELSE LET model_name == get_model_name(view) IN
              IF ~model_name.ok THEN model_name
              ELSE IF app_label.val # None /\ model_name.val # None
              THEN Return(app_label.val \o "." \o required_permission
                              \o "_" \o model_name.val)
              ELSE Return(required_permission)

\* The objects of a detail request: tenant, school, user, created_by and
\* owner are the attributes the gates look for (Absent: the model has no
\* such field; NoTenant: the field is null)
Object(tenant, school, user, created_by) ==
    [user |-> user, tenant |-> tenant, school |-> school,
     created_by |-> created_by, owner |-> Absent]

Objects ==
    {Object(t, Absent, Absent, Absent) : t \in {NoTenant, "A", "B"}}
    \cup {Object(NoTenant, "schA", Absent, Absent)}
    \cup {Object(Absent, s, Absent, Absent) : s \in Schools}
    \cup {Object(Absent, Absent, u, Absent) : u \in {"a1", "b1"}}
    \cup {Object(Absent, Absent, Absent, u) : u \in {"a1", "b1"}}

IsOwner(u, obj) ==
    IF obj.user # Absent THEN obj.user = u
    ELSE IF obj.created_by # Absent THEN obj.created_by = u
    ELSE IF obj.owner # Absent THEN obj.owner = u
    ELSE FALSE

Gate(class, arg) == [class |-> class, arg |-> arg]

RoleGates == {Gate("IsTenantAdmin", "tenant_admin"),
              Gate("IsSchoolAdmin", "school_admin"),
              Gate("HasRole", "teacher")}

UserTypeGates == {Gate("IsTeacher", "teacher"), Gate("IsStudent", "student"),
                  Gate("IsParent", "parent"), Gate("IsStaff", "staff")}

MethodGates == {Gate("ReadOnlyPermission", None),
                Gate("CreatePermission", None),
                Gate("UpdatePermission", None),
                Gate("DeletePermission", None)}

Gates ==
    RoleGates \cup UserTypeGates \cup MethodGates
    \cup {Gate("IsTenantUser", None), Gate("HasPermission", None),
          Gate("HasPermission", "core.view_dashboard"),
          Gate("IsOwnerOrReadOnly", None),
          Gate("IsOwnerOrHasPermission", "schools.view_student")}

\* what each class does once the caller is neither superuser nor anonymous
Gate_check(gate, u, view) ==
    CASE gate \in RoleGates -> Return(has_role(u, gate.arg))
      [] gate \in UserTypeGates ->
            Return(user_type(u) = gate.arg \/ has_role(u, gate.arg))
      [] gate.class = "HasPermission" ->
            LET name == HasPermission_permission_name(view, gate.arg) IN
            IF ~name.ok THEN name ELSE Return(has_permission(u, name.val))
      [] OTHER -> Return(TRUE)

\* mutant of has_permission_of: the is_authenticated test is missing
has_permission_of_NoAuthentication(gate, u, view) ==
    IF is_superuser(u) THEN Return(TRUE)
    ELSE CASE gate.class = "IsTenantUser" ->
                 Return(\E ur \in UserRolesOf(u) : ur.is_active)
           [] gate.class = "ReadOnlyPermission" ->
                 Return(view.method \in SAFE_METHODS)
           [] gate.class = "CreatePermission" -> Return(view.method = "POST")
           [] gate.class = "UpdatePermission" ->
                 Return(view.method \in {"PUT", "PATCH"})
           [] gate.class = "DeletePermission" ->
                 Return(view.method = "DELETE")
           [] OTHER -> Gate_check(gate, u, view)

\* has_permission(request, view) of the class of gate
has_permission_of(gate, u, view) ==
    IF is_superuser(u) THEN Return(TRUE)
    ELSE IF ~is_authenticated(u) THEN Return(FALSE)
    ELSE CASE gate.class = "IsTenantUser" ->
                 Return(\E ur \in UserRolesOf(u) : ur.is_active)
           [] gate.class = "ReadOnlyPermission" ->
                 Return(view.method \in SAFE_METHODS)
           [] gate.class = "CreatePermission" -> Return(view.method = "POST")
           [] gate.class = "UpdatePermission" ->
                 Return(view.method \in {"PUT", "PATCH"})
           [] gate.class = "DeletePermission" ->
                 Return(view.method = "DELETE")
           \* IsOwnerOrReadOnly, IsOwnerOrHasPermission: True
           [] OTHER -> Gate_check(gate, u, view)

\* has_object_permission(request, view, obj) of the class of gate. The four
\* method classes define none: they inherit BasePermission's, which returns
\* True whoever the caller is.
has_object_permission_of(gate, u, view, obj) ==
    IF gate \in MethodGates THEN Return(TRUE)
    ELSE IF is_superuser(u) THEN Return(TRUE)
    ELSE IF ~is_authenticated(u) THEN Return(FALSE)
    ELSE CASE gate.class = "IsTenantUser" ->
                 IF obj.tenant # Absent
                 THEN Return(obj.tenant = UserTenant(u))
                 ELSE IF obj.school # Absent
                 THEN Return(SchoolTenant(obj.school) = UserTenant(u))
                 ELSE Return(TRUE)
           [] gate.class = "IsOwnerOrReadOnly" ->
                 IF view.method \in SAFE_METHODS THEN Return(TRUE)
                 ELSE Return(IsOwner(u, obj))
           [] gate.class = "IsOwnerOrHasPermission" ->
                 IF IsOwner(u, obj) THEN Return(TRUE)
                 ELSE Return(has_permission(u, gate.arg))
           [] OTHER -> Gate_check(gate, u, view)

----------------------------------------------------------------------------
(* The gates at work: a request reaches a gate, the result of the call is  *)
(* recorded. The ledger is fixed: teacher (tenant A) holds                 *)
(* schools.view_student, a1 is a teacher, b1 has no assignment.            *)

NoObject == Object(Absent, Absent, Absent, Absent)

GateResponse(call, gate, u, view, obj, result, status) ==
    [user |-> u, status |-> status, view |-> view, obj |-> obj, gate |-> gate,
     call |-> call, result |-> result]

\* the views a gate is asked about: only HasPermission reads how the view
\* declares its model
ViewsOf(gate) ==
    IF gate.class = "HasPermission" THEN Views
    ELSE {v \in Views : v.exposes = "get_queryset"}

\* the objects a gate is asked about: the other classes do not read obj
ObjectsOf(gate) ==
    IF gate.class \in {"IsTenantUser", "IsOwnerOrReadOnly",
                       "IsOwnerOrHasPermission"}
    THEN Objects
    ELSE {Object("A", Absent, Absent, Absent)}

DetailActions == {"retrieve", "update"}

PermissionCheck(gate, u, view) ==
    /\ response' = GateResponse("has_permission", gate, u, view, NoObject,
                                has_permission_of(gate, u, view), 0)
    /\ UNCHANGED <<now, permissions, roles, role_permissions, user_roles,
                   books, borrowings, tenants, inflight>>

ObjectPermissionCheck(gate, u, view, obj) ==
    /\ response' = GateResponse("has_object_permission", gate, u, view, obj,
                       has_object_permission_of(gate, u, view, obj), 0)
    /\ UNCHANGED <<now, permissions, roles, role_permissions, user_roles,
                   books, borrowings, tenants, inflight>>

\* permission_classes of the list endpoints
Endpoints == {"users/", "roles/", "permissions/", "schools/"}

EndpointGate(endpoint) ==
    IF endpoint \in {"roles/", "permissions/"}
    THEN Gate("IsTenantAdmin", "tenant_admin")
    ELSE Gate("IsTenantUser", None)

\* GET of a list endpoint: APIView.initial() asks the gate; a refusal is
\* answered 403 (SessionAuthentication sends no WWW-Authenticate header, so
\* NotAuthenticated is answered 403 as well)
ListRequest(endpoint, u) ==
    LET gate == EndpointGate(endpoint)
        view == [action |-> "list", method |-> "GET",
                 exposes |-> "get_queryset", app_label |-> "accounts",
                 model_name |-> endpoint]
        result == has_permission_of(gate, u, view)
    IN /\ response' = GateResponse("list", gate, u, view, NoObject, result,
                          IF result.ok /\ result.val THEN 200 ELSE 403)
       /\ UNCHANGED <<now, permissions, roles, role_permissions, user_roles,
                      books, borrowings, tenants, inflight>>

\* no gate has been called yet
NoGateResponse ==
    GateResponse("none", Gate("none", None), "none",
                 [action |-> "none", method |-> "none", exposes |-> "none",
                  app_label |-> "none", model_name |-> "none"],
                 NoObject, Return(FALSE), 0)

InitGate ==
    /\ now = 0
    /\ permissions = SeededCatalog
    /\ roles = [n \in {"tenant_admin", "teacher"} |-> TenantRole(NoRole)]
    /\ role_permissions = {ActiveGrant("teacher", "schools.view_student")}
    /\ user_roles = {ActiveAssignment("a1", "teacher")}
    /\ books = <<>>
    /\ borrowings = <<>>
    /\ response = NoGateResponse
    /\ tenants = ActiveTenants
    /\ inflight = <<>>

NextGate ==
    \/ \E gate \in Gates, u \in Principals :
          \E view \in ViewsOf(gate) : PermissionCheck(gate, u, view)
    \/ \E gate \in Gates, u \in Principals :
          \E view \in {v \in ViewsOf(gate) : v.action \in DetailActions},
             obj \in ObjectsOf(gate) :
             ObjectPermissionCheck(gate, u, view, obj)
    \/ \E endpoint \in Endpoints, u \in Principals : ListRequest(endpoint, u)

SpecGate == InitGate /\ [][NextGate]_vars

----------------------------------------------------------------------------
(* tenants/middleware.py, core/production_middleware.py: tenant resolution *)

\* request.get_host() without its port, split at the dots
Hosts == {<<"a", "platform", "com">>, <<"b", "platform", "com">>,
          <<"www", "platform", "com">>, <<"a", "com">>, <<"localhost">>}

\* the X-Tenant header: a tenant id (C is the id of no tenant) or None
TenantHeaders == {None, "A", "B", "C"}

\* request.path, split at the slashes
Paths == {<<"admin", "login">>, <<"api", "v1", "health">>,
          <<"api", "health">>, <<"api", "v1", "accounts", "login">>,
          <<"api", "v1", "students">>}

\* path.startswith(skip_path)
startswith(path, skip_path) ==
    /\ Len(skip_path) <= Len(path)
    /\ SubSeq(path, 1, Len(skip_path)) = skip_path

\* Tenant.objects.get(subdomain=subdomain, is_active=True), None when
\* DoesNotExist
ActiveTenantBySubdomain(subdomain) ==
    LET found == {t \in DOMAIN tenants :
                     tenants[t].subdomain = subdomain /\ tenants[t].is_active}
    IN IF found = {} THEN NoTenant ELSE CHOOSE t \in found : TRUE

\* Tenant.objects.get(subdomain=subdomain)
TenantBySubdomain(subdomain) ==
    LET found == {t \in DOMAIN tenants : tenants[t].subdomain = subdomain}
    IN IF found = {} THEN NoTenant ELSE CHOOSE t \in found : TRUE

\* Tenant.objects.get(id=tenant_header)
TenantById(id) == IF id \in DOMAIN tenants THEN id ELSE NoTenant

TenantMiddleware_skip_paths ==
    {<<"admin">>, <<"api", "v1", "health">>, <<"static">>, <<"media">>,
     <<"favicon.ico">>}

TenantMiddleware_should_skip_tenant_resolution(path) ==
    \E skip_path \in TenantMiddleware_skip_paths : startswith(path, skip_path)

TenantMiddleware_extract_subdomain(hostname) ==
    IF Len(hostname) >= 3 THEN hostname[1]
    ELSE IF Len(hostname) = 2 THEN hostname[1]
    ELSE None

TenantMiddleware_get_tenant_from_hostname(hostname) ==
    LET subdomain == TenantMiddleware_extract_subdomain(hostname) IN
    IF subdomain # None THEN ActiveTenantBySubdomain(subdomain)
    ELSE NoTenant

TenantIsolationMiddleware_skip_paths ==
    {<<"admin">>, <<"api", "health">>, <<"api", "docs">>, <<"api", "schema">>,
     <<"api", "v1", "accounts", "login">>,
     <<"api", "v1", "accounts", "register">>}

TenantIsolationMiddleware_requires_tenant(path) ==
    ~\E skip_path \in TenantIsolationMiddleware_skip_paths :
          startswith(path, skip_path)

TenantIsolationMiddleware_get_tenant(host, tenant_header) ==
    LET by_host == IF Len(host) > 2 THEN TenantBySubdomain(host[1])
                   ELSE NoTenant
    IN IF by_host # NoTenant THEN by_host
       ELSE IF tenant_header # None THEN TenantById(tenant_header)
       ELSE NoTenant

MiddlewareResponse(middleware, u, host, header, path, resolved, tenant, status, view_ran) ==
    [user |-> u, tenant |-> tenant, status |-> status,
     path |-> path, host |-> host, middleware |-> middleware,
     header |-> header, resolved |-> resolved, view_ran |-> view_ran]

\* TenantMiddleware.__call__: request.tenant is the tenant or None (it is
\* not set on a skipped path), and the view runs in every case
TenantMiddleware_call(u, host, header, path) ==
    /\ response' =
          IF TenantMiddleware_should_skip_tenant_resolution(path)
          THEN MiddlewareResponse("TenantMiddleware", u, host, header, path,
                                  FALSE, Absent, 200, TRUE)
          ELSE MiddlewareResponse("TenantMiddleware", u, host, header, path,
                   TRUE, TenantMiddleware_get_tenant_from_hostname(host),
                   200, TRUE)
    /\ UNCHANGED <<now, permissions, roles, role_permissions, user_roles,
                   books, borrowings, tenants, inflight>>

\* TenantIsolationMiddleware.__call__
TenantIsolationMiddleware_call(u, host, header, path) ==
    /\ LET tenant == TenantIsolationMiddleware_get_tenant(host, header) IN
       response' =
          IF tenant = NoTenant
             /\ TenantIsolationMiddleware_requires_tenant(path)
          THEN MiddlewareResponse("TenantIsolationMiddleware", u, host,
                                  header, path, TRUE, tenant, 400, FALSE)
          ELSE MiddlewareResponse("TenantIsolationMiddleware", u, host,
                                  header, path, TRUE, tenant, 200, TRUE)
    /\ UNCHANGED <<now, permissions, roles, role_permissions, user_roles,
                   books, borrowings, tenants, inflight>>

\* core/views.py: TenantViewSet.activate / deactivate (the view is served
\* without either middleware: settings.MIDDLEWARE lists neither)
TenantSetActive(caller, t, active) ==
    /\ is_authenticated(caller)
    /\ IsTenantAdmin(caller)
    /\ t \in DOMAIN tenants
    /\ tenants[t].is_active # active
    /\ tenants' = [tenants EXCEPT ![t].is_active = active]
    /\ response' = MiddlewareResponse("none", caller, <<"localhost">>, None,
                       <<"api", "v1", "tenants">>, FALSE, Absent, 200, TRUE)
    /\ UNCHANGED <<now, permissions, roles, role_permissions, user_roles,
                   books, borrowings, inflight>>

NoMiddlewareResponse ==
    MiddlewareResponse("none", "none", <<"localhost">>, None, <<>>,
                       FALSE, Absent, 0, FALSE)

InitTenant ==
    /\ now = 0
    /\ permissions = SeededCatalog
    /\ roles = [n \in {"tenant_admin"} |-> TenantRole(NoRole)]
    /\ role_permissions = {}
    /\ user_roles = {ActiveAssignment("a1", "tenant_admin")}
    /\ books = <<>>
    /\ borrowings = <<>>
    /\ response = NoMiddlewareResponse
    /\ tenants = ActiveTenants
    /\ inflight = <<>>

NextTenant ==
    \/ \E u \in Principals, host \in Hosts, header \in TenantHeaders,
          path \in Paths : TenantMiddleware_call(u, host, header, path)
    \/ \E u \in Principals, host \in Hosts, header \in TenantHeaders,
          path \in Paths :
          TenantIsolationMiddleware_call(u, host, header, path)
    \/ \E caller \in Users, t \in DOMAIN tenants, active \in BOOLEAN :
          TenantSetActive(caller, t, active)

SpecTenant == InitTenant /\ [][NextTenant]_vars

----------------------------------------------------------------------------
(* accounts/management/commands/setup_rbac.py: the whole seeding command.  *)
(* The command opens no transaction: every get_or_create commits on its    *)
(* own, and a command that raises keeps the rows it wrote before.          *)

\* apps.get_app_configs() / app_config.get_models(): the resources, as
\* (app_label, model_name)
Resources == {<<"schools", "student">>, <<"library", "book">>}

Verbs == {"view", "create", "update", "delete"}

\* 'name': f'view_{model._meta.model_name}', and so on for each verb
seeded_name(verb, model_name) == verb \o "_" \o model_name

\* one row of permissions_to_create
perm_data(verb, resource) ==
    [is_global |-> FALSE, permission_type |-> verb,
     app_label |-> resource[1], model_name |-> resource[2]]

\* Permission.objects.get_or_create(name=perm_data['name'],
\* defaults=perm_data) over every resource and verb: a name that has a row
\* keeps it
create_model_permissions_rows(rows) ==
    LET names == {seeded_name(v, res[2]) : v \in Verbs, res \in Resources}
        data(n) == CHOOSE d \in {perm_data(v, res) :
                                    v \in Verbs, res \in Resources} :
                       n = seeded_name(d.permission_type, d.model_name)
    IN [n \in DOMAIN rows \cup names |->
           IF n \in DOMAIN rows THEN rows[n] ELSE data(n)]

SeedResponse(command, tenant, ok) ==
    [ok |-> ok, tenant |-> tenant, command |-> command]

create_model_permissions ==
    /\ permissions' = create_model_permissions_rows(permissions)
    /\ response' = SeedResponse("create_model_permissions", NoTenant, TRUE)
    /\ UNCHANGED <<now, roles, role_permissions, user_roles, books,
                   borrowings, tenants, inflight>>

\* Permission.app_label of a row
app_label_of(p) ==
    IF "app_label" \in DOMAIN permissions[p] THEN permissions[p].app_label
    ELSE IF p = "core.view_dashboard" THEN "core" ELSE "schools"

\* the roles of create_tenant_roles, in the order of their get_or_create
TenantRoleNames ==
    <<"tenant_admin", "school_admin", "teacher", "student", "parent", "staff">>

\* Role.objects.get_or_create(name=..., tenant=tenant, defaults=...) for
\* the names from position i on: the lookup is by (name, tenant); when it
\* finds no row the INSERT meets the unique constraint of Role.name, and a
\* row of that name in another tenant makes it raise IntegrityError
RECURSIVE GetOrCreateTenantRoles(_, _, _)
GetOrCreateTenantRoles(i, tenant, rls) ==
    IF i > Len(TenantRoleNames) THEN Return(rls)
    ELSE LET name == TenantRoleNames[i] IN
         IF name \in DOMAIN rls /\ rls[name].tenant = tenant
         THEN GetOrCreateTenantRoles(i + 1, tenant, rls)
         ELSE IF name \in DOMAIN rls
         THEN [ok |-> FALSE, err |-> "IntegrityError", val |-> rls]
         ELSE GetOrCreateTenantRoles(i + 1, tenant,
                  [n \in DOMAIN rls \cup {name} |->
                      IF n = name
                      THEN [parent_role |-> NoRole, tenant |-> tenant,
                            role_type |-> "tenant"]
                      ELSE rls[n]])

\* assign_tenant_permissions: the permissions each role is granted
tenant_role_permissions(name) ==
    LET all == DOMAIN permissions IN
    CASE name = "tenant_admin" -> all
      [] name = "school_admin" ->
            {p \in all :
                app_label_of(p) \notin {"admin", "sessions", "contenttypes"}}
      [] name = "teacher" ->
            {p \in all :
                /\ app_label_of(p) \in {"schools", "library", "communication"}
                /\ permission_type(p) \in {"view", "create", "update"}}
      [] name \in {"student", "parent"} ->
            {p \in all : /\ app_label_of(p) \in {"schools"}
                         /\ permission_type(p) = "view"}
      [] OTHER ->
            {p \in all : /\ app_label_of(p) \in {"schools", "library"}
                         /\ permission_type(p) \in {"view", "create"}}

RECURSIVE assign_tenant_permissions(_, _)
assign_tenant_permissions(i, rows) ==
    IF i > Len(TenantRoleNames) THEN rows
    ELSE assign_tenant_permissions(i + 1,
             GetOrCreateGrants(TenantRoleNames[i],
                 tenant_role_permissions(TenantRoleNames[i]), rows))

\* create_tenant_roles(tenant) on the tables (rls, rows): the tables it
\* leaves and whether it returned
create_tenant_roles_on(tenant, rls, rows) ==
    LET made == GetOrCreateTenantRoles(1, tenant, rls) IN
    IF made.ok
    THEN [roles |-> made.val, role_permissions |-> assign_tenant_permissions(1, rows),
          ok |-> TRUE]
    ELSE [roles |-> made.val, role_permissions |-> rows, ok |-> FALSE]

create_tenant_roles(tenant) ==
    LET res == create_tenant_roles_on(tenant, roles, role_permissions) IN
    /\ roles' = res.roles
    /\ role_permissions' = res.role_permissions
    /\ response' = SeedResponse("create_tenant_roles", tenant, res.ok)
    /\ UNCHANGED <<now, permissions, user_roles, books, borrowings,
                   tenants, inflight>>

\* create_system_roles on the tables (rls, rows); it raises nothing
create_system_roles_on(rls, rows) ==
    [roles |-> [n \in DOMAIN rls \cup {"super_admin", "system_admin"} |->
                   IF n \in DOMAIN rls THEN rls[n] ELSE SystemRole],
     role_permissions |->
         GetOrCreateGrants("system_admin",
             {p \in DOMAIN permissions : permission_type(p) = "view"},
             GetOrCreateGrants("super_admin", DOMAIN permissions, rows)),
     ok |-> TRUE]

\* the command as a step of its own, re-runs included
handle_create_system_roles ==
    LET res == create_system_roles_on(roles, role_permissions) IN
    /\ roles' = res.roles
    /\ role_permissions' = res.role_permissions
    /\ response' = SeedResponse("create_system_roles", NoTenant, res.ok)
    /\ UNCHANGED <<now, permissions, user_roles, books, borrowings,
                   tenants, inflight>>

\* Seeding: an empty database with the two tenants; the seeding commands
\* run in any order and any number of times, and the superuser deletes
\* roles and grants in between
InitSeed ==
    /\ now = 0
    /\ permissions = [p \in {} |-> [is_global |-> FALSE]]
    /\ roles = [n \in {} |-> SystemRole]
    /\ role_permissions = {}
    /\ user_roles = {}
    /\ books = <<>>
    /\ borrowings = <<>>
    /\ response = SeedResponse("none", NoTenant, TRUE)
    /\ tenants = ActiveTenants
    /\ inflight = <<>>

NextSeed ==
    \/ create_model_permissions
    \/ handle_create_system_roles
    \/ \E t \in DOMAIN tenants : create_tenant_roles(t)
    \/ \E r \in DOMAIN roles : RoleDestroy("su", r)

SpecSeed == InitSeed /\ [][NextSeed]_vars

----------------------------------------------------------------------------
(* tenants/views.py, tenants/serializers.py: public tenant registration    *)
(* and the RBAC setup that follows it, either as the Celery task           *)
(* setup_tenant_rbac or, when .delay() raises, as setup_tenant_rbac_sync.  *)

\* the subdomains that are registered
TenantIds == {"A", "B"}

\* the admin user TenantRegistrationSerializer.create makes for the tenant
\* (user_type='admin', tenant=tenant)
admin_user(t) == "admin_" \o ActiveTenants[t].subdomain

\* setup_tenant_rbac_sync: a role named f'tenant_admin_{tenant.subdomain}'
\* is looked up by name or created, and the admin user is assigned to it
sync_role_name(t) == "tenant_admin_" \o ActiveTenants[t].subdomain

setup_tenant_rbac_sync_on(t, rls, urs) ==
    LET name == sync_role_name(t)
        admin == admin_user(t)
    IN [roles |-> [n \in DOMAIN rls \cup {name} |->
                      IF n \in DOMAIN rls THEN rls[n]
                      ELSE [parent_role |-> NoRole, tenant |-> t,
                            role_type |-> "tenant"]],
        user_roles |->
            IF \E ur \in urs : ur.user = admin /\ ur.role = name THEN urs
            ELSE urs \cup {ActiveAssignment(admin, name)}]

\* register_tenant: serializer.save() creates the tenant, its admin user
\* and its school; setup_tenant_rbac.delay() queues the task when the
\* broker answers (celery), and otherwise the except branch runs
\* setup_tenant_rbac_sync at once. The answer is 201 in both cases.
register_tenant(t, celery) ==
    /\ t \notin DOMAIN tenants
    /\ tenants' = [x \in DOMAIN tenants \cup {t} |->
                      IF x = t THEN ActiveTenants[t] ELSE tenants[x]]
    /\ IF celery
       THEN /\ inflight' = Append(inflight,
                               Request("setup_tenant_rbac", admin_user(t),
                                       NoRole, t, <<>>, "queued", 0))
            /\ UNCHANGED <<roles, user_roles>>
       ELSE LET res == setup_tenant_rbac_sync_on(t, roles, user_roles)
            IN /\ roles' = res.roles
               /\ user_roles' = res.user_roles
               /\ UNCHANGED inflight
    /\ response' = SeedResponse("register_tenant", t, TRUE)
    /\ UNCHANGED <<now, permissions, role_permissions, books, borrowings>>

\* the Celery task setup_tenant_rbac: call_command('setup_rbac',
\* tenant=tenant.subdomain) runs Command.handle, that is create_system_roles
\* and then create_tenant_roles(tenant); whatever it raises is caught and
\* printed. No UserRole is written.
setup_tenant_rbac(i) ==
    /\ i \in DOMAIN inflight
    /\ inflight[i].view = "setup_tenant_rbac"
    /\ LET t == inflight[i].target
           system == create_system_roles_on(roles, role_permissions)
           res == create_tenant_roles_on(t, system.roles,
                                         system.role_permissions)
       IN /\ roles' = res.roles
          /\ role_permissions' = res.role_permissions
          /\ response' = SeedResponse("setup_tenant_rbac", t, res.ok)
    /\ inflight' = [j \in 1..(Len(inflight) - 1) |->
                       IF j < i THEN inflight[j] ELSE inflight[j + 1]]
    /\ UNCHANGED <<now, permissions, user_roles, books, borrowings, tenants>>

\* Registration: an empty platform; tenants register with or without a
\* reachable broker, the queued tasks run in any order, and the operator
\* may run the seeding commands at any moment
InitRegister ==
    /\ now = 0
    /\ permissions = [p \in {} |-> [is_global |-> FALSE]]
    /\ roles = [n \in {} |-> SystemRole]
    /\ role_permissions = {}
    /\ user_roles = {}
    /\ books = <<>>
    /\ borrowings = <<>>
    /\ response = SeedResponse("none", NoTenant, TRUE)
    /\ tenants = [t \in {} |-> ActiveTenants["A"]]
    /\ inflight = <<>>

NextRegister ==
    \/ \E t \in TenantIds, celery \in BOOLEAN : register_tenant(t, celery)
    \/ \E i \in DOMAIN inflight : setup_tenant_rbac(i)
    \/ create_model_permissions
    \/ handle_create_system_roles
    \/ \E t \in DOMAIN tenants : create_tenant_roles(t)

SpecRegister == InitRegister /\ [][NextRegister]_vars

\* a Celery worker runs every task that stays queued
FairSpecRegister ==
    SpecRegister /\ WF_vars(\E i \in DOMAIN inflight : setup_tenant_rbac(i))

----------------------------------------------------------------------------
(* tenants/middleware.py: the tenant context of a request. Requests are    *)
(* served by threads; a request is in flight from the moment the           *)
(* middleware has resolved its tenant until get_response returns.          *)

\* threading.local(): a new thread-local object, which has no attribute
local == [attribute \in {} |-> NoTenant]

\* _configure_tenant_database(tenant): a local object made inside the call
\* gets the attribute tenant; it is bound to a variable of the call and to
\* nothing else
TenantMiddleware_configure_tenant_database(tenant) ==
    LET _thread_locals == local
    IN [attribute \in DOMAIN _thread_locals \cup {"tenant"} |->
           IF attribute = "tenant" THEN tenant
           ELSE _thread_locals[attribute]]

\* get_current_tenant(): getattr(_thread_locals, 'tenant', None) on a local
\* object made inside the call
get_current_tenant ==
    LET _thread_locals == local
    IN IF "tenant" \in DOMAIN _thread_locals THEN _thread_locals["tenant"]
       ELSE NoTenant

ContextResponse(u, tenant, current_tenant) ==
    [user |-> u, tenant |-> tenant, call |-> "get_current_tenant",
     current_tenant |-> current_tenant]

\* TenantMiddleware.__call__ up to get_response: request.tenant is set to
\* the tenant or to None, or left unset on a skipped path; for a tenant,
\* _configure_tenant_database runs and its local object is dropped
TenantMiddleware_enter(u, host, path) ==
    /\ Len(inflight) < MaxRequests
    /\ LET tenant ==
               IF TenantMiddleware_should_skip_tenant_resolution(path)
               THEN Absent
               ELSE TenantMiddleware_get_tenant_from_hostname(host)
           configured ==
               IF tenant \in DOMAIN tenants
               THEN TenantMiddleware_configure_tenant_database(tenant)
               ELSE local
       IN inflight' = Append(inflight,
              Request("TenantMiddleware", u, NoRole, tenant, <<>>,
                      "view", 0))
    /\ UNCHANGED <<now, permissions, roles, role_permissions, user_roles,
                   books, borrowings, response, tenants>>

\* the view of request i calls get_current_tenant()
view_get_current_tenant(i) ==
    /\ i \in DOMAIN inflight
    /\ inflight[i].pc = "view"
    /\ response' = ContextResponse(inflight[i].caller, inflight[i].target,
                                   get_current_tenant)
    /\ inflight' = [inflight EXCEPT ![i].pc = "called"]
    /\ UNCHANGED <<now, permissions, roles, role_permissions, user_roles,
                   books, borrowings, tenants>>

\* get_response returns and TenantMiddleware.__call__ returns the response
TenantMiddleware_return(i) ==
    /\ i \in DOMAIN inflight
    /\ inflight' = [j \in 1..(Len(inflight) - 1) |->
                       IF j < i THEN inflight[j] ELSE inflight[j + 1]]
    /\ UNCHANGED <<now, permissions, roles, role_permissions, user_roles,
                   books, borrowings, response, tenants>>

InitContext ==
    /\ now = 0
    /\ permissions = SeededCatalog
    /\ roles = [n \in {"tenant_admin"} |-> TenantRole(NoRole)]
    /\ role_permissions = {}
    /\ user_roles = {}
    /\ books = <<>>
    /\ borrowings = <<>>
    /\ response = [user |-> "none", tenant |-> Absent, call |-> "none",
                   current_tenant |-> NoTenant]
    /\ tenants = ActiveTenants
    /\ inflight = <<>>

NextContext ==
    \/ \E u \in Principals, host \in Hosts, path \in Paths :
          TenantMiddleware_enter(u, host, path)
    \/ \E i \in DOMAIN inflight : view_get_current_tenant(i)
    \/ \E i \in DOMAIN inflight : TenantMiddleware_return(i)

SpecContext == InitContext /\ [][NextContext]_vars

----------------------------------------------------------------------------
(* Vocabulary of the claims *)

Expired(e) == e.expires_at # Null /\ e.expires_at < now

Invalid(e) == ~e.is_active \/ Expired(e)

IsGlobal(n) == n \in DOMAIN permissions /\ permissions[n].is_global

\* The roles above r on its parent chain (r itself is among them exactly
\* when the chain returns to r)
RECURSIVE AncestorsFrom(_, _)
AncestorsFrom(r, seen) ==
    LET p == roles[r].parent_role IN
    IF p = NoRole \/ p \in seen THEN seen
    ELSE AncestorsFrom(p, seen \cup {p})

Ancestors(r) == AncestorsFrom(r, {})

Chain(r) == {r} \cup Ancestors(r)

NoParentCycle == \A r \in DOMAIN roles : r \notin Ancestors(r)

ValidGrants(r) ==
    {rp.permission : rp \in {x \in role_permissions :
                                x.role = r /\ RolePermission_is_valid(x)}}

ValidGrantsOfChain(r) == UNION {ValidGrants(a) : a \in Chain(r)}

CheckedNames == PermissionNames \cup {"unknown"}

----------------------------------------------------------------------------
(* Claims on the authorization engine, checked under SpecLedger *)

\* C2: a grant that is inactive or expired gives no permission: a
\* non-superuser whose only path to a non-global permission p is the role of
\* that grant has neither has_permission(p) nor p in get_permissions().
C2_InvalidGrantsExcluded ==
    \A rp \in role_permissions : \A u \in Users :
        ( /\ Invalid(rp)
          /\ ~is_superuser(u)
          /\ ~IsGlobal(rp.permission)
          /\ \E ur \in UserRolesOf(u) : ur.role = rp.role
          /\ \A ur \in UserRolesOf(u) : \A other \in role_permissions :
                (other.permission = rp.permission /\ other.role \in Chain(ur.role))
                    => other = rp )
        => ( /\ ~has_permission(u, rp.permission)
             /\ rp.permission \notin get_permissions(u) )

\* C3: once the clock is past the expires_at of a user's assignment, the
\* user no longer has that role, and a non-superuser with no other
\* assignment gets no non-global permission.
C3_ExpiredAssignmentExcluded ==
    \A ur \in user_roles :
        Expired(ur) =>
            /\ ~has_role(ur.user, ur.role)
            /\ (~is_superuser(ur.user) /\ UserRolesOf(ur.user) = {ur}) =>
                  \A n \in CheckedNames :
                      ~IsGlobal(n) =>
                          /\ ~has_permission(ur.user, n)
                          /\ n \notin get_permissions(ur.user)

\* C4: has_role holds while the assignment is active, and no longer holds
\* once the assignment is marked inactive (the user holding no other valid
\* assignment to a role of that name).
C4_RevocationTakesEffect ==
    \A ur \in user_roles :
        /\ ur.is_active => has_role(ur.user, ur.role)
        /\ ( /\ ~ur.is_active
             /\ ~\E o \in user_roles \ {ur} :
                   o.user = ur.user /\ o.role = ur.role /\ UserRole_is_valid(o) )
           => ~has_role(ur.user, ur.role)

\* C5: for a non-superuser, has_permission(n) is true when a valid
\* assignment leads to a role with a valid grant of n, and false when no
\* assigned role, nor any ancestor of one, holds a grant of n and n is not
\* global.
C5_PermissionsFlowThroughRoles ==
    \A u \in Users : \A n \in CheckedNames :
        ~is_superuser(u) =>
            /\ (\E ur \in UserRolesOf(u) : \E rp \in role_permissions :
                   /\ UserRole_is_valid(ur)
                   /\ RolePermission_is_valid(rp)
                   /\ rp.role = ur.role
                   /\ rp.permission = n)
               => has_permission(u, n)
            /\ ( /\ ~IsGlobal(n)
                 /\ \A ur \in UserRolesOf(u) : \A rp \in role_permissions :
                       rp.role \in Chain(ur.role) => rp.permission # n )
               => ~has_permission(u, n)

\* The scenario of C5: a1 validly holds a role with a valid grant of
\* schools.view_student and no grant of schools.delete_student.
C5_Witness ==
    /\ \E ur \in UserRolesOf("a1") : \E rp \in role_permissions :
          /\ UserRole_is_valid(ur)
          /\ RolePermission_is_valid(rp)
          /\ rp.role = ur.role
          /\ rp.permission = "schools.view_student"
    /\ has_permission("a1", "schools.view_student")
    /\ ~has_permission("a1", "schools.delete_student")

\* C6: a permission validly granted only to an ancestor of the one role a
\* non-superuser validly holds is a permission of that user.
C6_InheritanceReachesUser ==
    \A u \in Users : \A ur \in UserRolesOf(u) : \A rp \in role_permissions :
        ( /\ ~is_superuser(u)
          /\ UserRolesOf(u) = {ur}
          /\ UserRole_is_valid(ur)
          /\ RolePermission_is_valid(rp)
          /\ rp.role \in Ancestors(ur.role)
          /\ rp.role # ur.role
          /\ \A other \in role_permissions :
                other.permission = rp.permission => other = rp )
        => ( /\ has_permission(u, rp.permission)
             /\ rp.permission \in get_permissions(u) )

\* C7: a superuser has every permission of the catalog, and
\* get_permissions() of a superuser is the whole catalog.
C7_SuperuserBypass ==
    \A u \in Users :
        is_superuser(u) =>
            /\ \A p \in DOMAIN permissions : has_permission(u, p)
            /\ get_permissions(u) = DOMAIN permissions

\* C8: for a non-superuser, has_permission(n) is true exactly when a
\* permission named n is in get_permissions().
C8_HasPermissionAgreesWithSet ==
    \A u \in Users : \A n \in CheckedNames :
        ~is_superuser(u) => (has_permission(u, n) <=> n \in get_permissions(u))

\* C9: in an acyclic role graph get_all_permissions(r) returns exactly the
\* valid grants of r and of the roles on its parent chain, as a set.
C9_AllPermissionsIsChainUnion ==
    NoParentCycle =>
        \A r \in DOMAIN roles :
            get_all_permissions(r) = Return(ValidGrantsOfChain(r))

----------------------------------------------------------------------------
(* Claims on the role graph, checked under SpecGraph *)

\* C10: no reachable state of the role table contains a parent cycle (a
\* create or update that would close one is rejected).
C10_RoleGraphAcyclic == NoParentCycle

----------------------------------------------------------------------------
(* Claims on tenant isolation, checked under SpecLibrary *)

\* C1: the response to a non-superuser caller, of a list endpoint or of a
\* retrieve by id, holds no book and no user of another tenant.
C1_TenantIsolation ==
    ~is_superuser(response.caller) =>
        /\ \A id \in response.books :
              BookTenant(id) = UserTenant(response.caller)
        /\ \A u \in response.users :
              UserTenant(u) = UserTenant(response.caller)

----------------------------------------------------------------------------
(* Claims on the ancestor walk, checked under SpecGraph *)

\* The parent chain above r ends at a root: no role on it lies on a cycle
FiniteChain(r) == \A a \in Chain(r) : a \notin Ancestors(a)

\* C11: for every role of every role table reachable through role create
\* and update, the chain of ancestors that get_all_permissions walks is
\* finite and the call returns (it does not raise).
C11_AncestorWalkTerminates ==
    \A r \in DOMAIN roles :
        FiniteChain(r) /\ get_all_permissions(r).ok

----------------------------------------------------------------------------
(* Claims on attaching and assigning, checked under SpecAttach *)

GrantsOfPair(r, p) ==
    {rp \in role_permissions : rp.role = r /\ rp.permission = p}

AssignmentsOfPair(u, r) ==
    {ur \in user_roles : ur.user = u /\ ur.role = r}

----------------------------------------------------------------------------
(* Claims on concurrent grant creation, checked under SpecRace *)

AllDone == \A i \in DOMAIN inflight : inflight[i].pc = "done"

\* The (role, permission) pairs and the (user, role) pairs that the
\* requests to the create endpoints are about
\* (a role whose grants an assign_permissions request replaces is left out)
RacedGrants ==
    {<<inflight[i].role, inflight[i].target>> :
        i \in {j \in DOMAIN inflight :
                  /\ inflight[j].view = "role-permissions/"
                  /\ ~\E k \in DOMAIN inflight :
                        /\ inflight[k].view = "assign_permissions/"
                        /\ inflight[k].role = inflight[j].role}}

RacedAssignments ==
    {<<inflight[i].target, inflight[i].role>> :
        i \in {j \in DOMAIN inflight : inflight[j].view = "user-roles/"}}

\* C13: when requests concurrently create the same (role, permission) edge
\* or the same (user, role) edge, no request ends in a constraint-violation
\* crash, and once all of them are served the pair has exactly one edge and
\* it is active.
C13_ConcurrentCreationAtomic ==
    /\ \A i \in DOMAIN inflight : inflight[i].status # 500
    /\ AllDone =>
          /\ \A g \in RacedGrants :
                /\ Cardinality(GrantsOfPair(g[1], g[2])) = 1
                /\ \A rp \in GrantsOfPair(g[1], g[2]) : rp.is_active
          /\ \A a \in RacedAssignments :
                /\ Cardinality(AssignmentsOfPair(a[1], a[2])) = 1
                /\ \A ur \in AssignmentsOfPair(a[1], a[2]) : ur.is_active

----------------------------------------------------------------------------
(* Claims on the audit trail, checked under SpecLedger *)

\* C14: no grant-management operation (assign_permissions included)
\* physically deletes a RolePermission record: the (role, permission) edge
\* of every record of the table is still in the table after the step.
C14_AuditTrailPreserved ==
    [][\A rp \in role_permissions :
          \E kept \in role_permissions' :
              kept.role = rp.role /\ kept.permission = rp.permission]_vars

----------------------------------------------------------------------------
(* Claims on the authorization reads, checked under SpecLedger *)

Unassigned(u) == UserRolesOf(u) = {}

\* The views in which the gate finds no model
ViewsWithoutModel == {v \in Views : v.exposes \in {"get_queryset", "none"}}

\* C15: the authorization reads deny and never raise on missing data: a
\* name that matches no record gives false from has_role and from
\* has_permission of a user and of a role, a user with no assignment has no
\* role and no permission beyond the global ones, and the gate builds its
\* permission name for a view with no model without raising.
C15_ReadsFailClosed ==
    /\ \A u \in Users :
          /\ ~has_role(u, "unknown")
          /\ ~has_permission(u, "unknown")
          /\ Unassigned(u) =>
                /\ \A r \in RoleNames : ~has_role(u, r)
                /\ \A n \in CheckedNames : ~has_permission(u, n)
                /\ \A n \in get_permissions(u) : IsGlobal(n)
    /\ \A r \in DOMAIN roles :
          Role_has_permission(r, "unknown") = Return(FALSE)
    /\ \A view \in ViewsWithoutModel :
          HasPermission_permission_name(view, None).ok

----------------------------------------------------------------------------
(* Claims on the gates, checked under SpecGate *)

\* The tenant an object belongs to: its own tenant, or the tenant of its
\* owning school, or else the tenant of the user that owns or created it
BelongsTo(obj) ==
    IF obj.tenant # Absent THEN obj.tenant
    ELSE IF obj.school # Absent THEN SchoolTenant(obj.school)
    ELSE IF obj.user # Absent THEN UserTenant(obj.user)
    ELSE IF obj.created_by # Absent THEN UserTenant(obj.created_by)
    ELSE Absent

\* C16: for a non-superuser authenticated caller,
\* IsTenantUser.has_object_permission allows only when the tenant of the
\* target object equals the tenant of the caller; an object of a different
\* tenant is denied.
C16_ObjectScopeCheck ==
    ( /\ response.call = "has_object_permission"
      /\ response.gate.class = "IsTenantUser"
      /\ ~is_superuser(response.user)
      /\ is_authenticated(response.user)
      /\ response.result = Return(TRUE) )
    => BelongsTo(response.obj) = UserTenant(response.user)

\* The classes that define has_object_permission themselves
DefinesObjectPermission(gate) == gate \notin MethodGates

\* C19 as stated: for an anonymous principal has_permission and
\* has_object_permission of every gate class return false, and the list
\* endpoints (users, roles, permissions, schools) answer 401 or 403.
C19_AnonymousDenied ==
    response.user = "anon" =>
        /\ response.call \in {"has_permission", "has_object_permission"}
              => response.result = Return(FALSE)
        /\ response.call = "list" => response.status \in {401, 403}

\* C19 amended: for an anonymous principal has_permission of every gate
\* class returns false, and so does has_object_permission of every class
\* that defines it (the four method classes inherit one that returns true,
\* reached only after has_permission has allowed); the list endpoints
\* (users, roles, permissions, schools) answer 401 or 403.
C19_AnonymousDeniedByHasPermission ==
    response.user = "anon" =>
        /\ response.call = "has_permission"
              => response.result = Return(FALSE)
        /\ (response.call = "has_object_permission"
            /\ DefinesObjectPermission(response.gate))
              => response.result = Return(FALSE)
        /\ response.call = "list" => response.status \in {401, 403}

\* The scenario of C19: an anonymous GET was just refused by
\* IsOwnerOrReadOnly.has_permission, which allows every authenticated user.
C19_Witness ==
    /\ response.user = "anon"
    /\ response.call = "has_permission"
    /\ response.gate.class = "IsOwnerOrReadOnly"
    /\ response.view.method = "GET"
    /\ response.result = Return(FALSE)

\* The verb of the spec's operation table
TableVerb(action) ==
    CASE action \in {"list", "retrieve"} -> "view"
      [] action = "create" -> "create"
      [] action \in {"update", "partial_update"} -> "update"
      [] action = "destroy" -> "delete"

\* C20: for each of the six view actions of a view on a resource with app
\* label d and model name m, HasPermission() decides a non-superuser authenticated
\* caller by has_permission on the name "d.<verb>_m", the verb taken from
\* the table: it allows when that is true and denies when it is false.
C20_OperationToCapability ==
    ( /\ response.call = "has_permission"
      /\ response.gate = Gate("HasPermission", None)
      /\ ~is_superuser(response.user)
      /\ is_authenticated(response.user)
      /\ response.view.action \in ViewActions \ {"borrow"}
      /\ response.view.exposes # "none" )
    => response.result =
          Return(has_permission(response.user,
                     response.view.app_label \o "."
                        \o TableVerb(response.view.action) \o "_"
                        \o response.view.model_name))

----------------------------------------------------------------------------
(* Claims on tenant resolution, checked under SpecTenant *)

TenantMiddlewares == {"TenantMiddleware", "TenantIsolationMiddleware"}

\* The path is on the exempt list of the middleware that served the request
Exempt(middleware, path) ==
    IF middleware = "TenantMiddleware"
    THEN TenantMiddleware_should_skip_tenant_resolution(path)
    ELSE ~TenantIsolationMiddleware_requires_tenant(path)

\* C17: a request whose path is not exempt and for which no tenant is
\* resolved is rejected with the tenant-required error (400) before the
\* view runs, whoever the principal is; a request on an exempt path reaches
\* the view.
C17_TenantRequiredGate ==
    response.middleware \in TenantMiddlewares =>
        /\ ( /\ ~Exempt(response.middleware, response.path)
             /\ response.tenant \in {NoTenant, Absent} )
           => (response.status = 400 /\ ~response.view_ran)
        /\ Exempt(response.middleware, response.path) => response.view_ran

\* The stated algorithm: the active tenant of the leftmost label of the
\* host; else the tenant named by the header, if there is one; else None
StatedResolution(host, header) ==
    LET by_label == {t \in DOMAIN tenants :
                        /\ tenants[t].subdomain = Head(host)
                        /\ tenants[t].is_active}
    IN IF by_label # {} THEN CHOOSE t \in by_label : TRUE
       ELSE IF header # None /\ header \in DOMAIN tenants THEN header
       ELSE NoTenant

\* C18: for every host and header the tenant a middleware resolves is the
\* one the stated algorithm gives, and a deactivated tenant is never
\* resolved from its subdomain (that is, without the header naming it).
C18_ResolutionFollowsAlgorithm ==
    (response.middleware \in TenantMiddlewares /\ response.resolved) =>
        /\ response.tenant = StatedResolution(response.host, response.header)
        /\ (response.tenant \in DOMAIN tenants /\ response.header = None)
              => tenants[response.tenant].is_active

----------------------------------------------------------------------------
(* C21 *)

\* the view of a resource as HasPermission sees it
ResourceView(resource, action) ==
    [action |-> action, method |-> ViewMethod(action), exposes |-> "model",
     app_label |-> resource[1], model_name |-> resource[2]]

VerbAction(verb) ==
    CASE verb = "view" -> "list"
      [] verb = "create" -> "create"
      [] verb = "update" -> "update"
      [] OTHER -> "destroy"

\* C21: once the bulk seeding has run, every resource (d, m) and every verb
\* of view, create, update, delete has a permission of its own whose name is
\* the name HasPermission builds for that resource and verb, "d.<verb>_m".
C21_SeededNamesHaveGateShape ==
    [][create_model_permissions =>
          \A resource \in Resources, verb \in Verbs :
              LET built == HasPermission_permission_name(
                               ResourceView(resource, VerbAction(verb)), None)
              IN /\ built.ok
                 /\ built.val \in DOMAIN permissions'
                 /\ permissions'[built.val] = perm_data(verb, resource)]_vars

----------------------------------------------------------------------------
(* C22 *)

\* C22: create_tenant_roles(T) returns without an error and leaves the six
\* tenant roles scoped to T, also when another tenant was seeded before.
C22_TenantRolesPerTenant ==
    [][\A t \in DOMAIN tenants :
          create_tenant_roles(t) =>
              /\ response'.ok
              /\ \A i \in DOMAIN TenantRoleNames :
                    /\ TenantRoleNames[i] \in DOMAIN roles'
                    /\ roles'[TenantRoleNames[i]].tenant = t]_vars

----------------------------------------------------------------------------
(* C23 *)

\* C23: from any state, when create_system_roles, or create_tenant_roles for
\* a tenant, is run and then run a second time, the second run raises no
\* error and leaves the roles and the grants as the first run left them
\* (the permissions are touched by neither).
C23_SeedingIdempotent ==
    /\ LET first == create_system_roles_on(roles, role_permissions)
           second == create_system_roles_on(first.roles,
                                            first.role_permissions)
       IN /\ second.ok
          /\ second.roles = first.roles
          /\ second.role_permissions = first.role_permissions
    /\ \A t \in DOMAIN tenants :
          LET first == create_tenant_roles_on(t, roles, role_permissions)
              second == create_tenant_roles_on(t, first.roles,
                                               first.role_permissions)
          IN /\ second.ok
             /\ second.roles = first.roles
             /\ second.role_permissions = first.role_permissions

----------------------------------------------------------------------------
(* C24 *)

\* C24: has_role(u, name) is true only if u has a direct assignment to the
\* role of that name; an assignment to a role never makes has_role true for
\* the name of an ancestor of that role.
C24_RoleMembershipDirect ==
    /\ \A u \in Users, name \in RoleNames :
          has_role(u, name) =>
              \E ur \in user_roles : ur.user = u /\ ur.role = name
    /\ \A ur \in user_roles :
          \A a \in Ancestors(ur.role) :
              (~\E o \in user_roles : o.user = ur.user /\ o.role = a)
                  => ~has_role(ur.user, a)

\* a user holds child_role and holds no assignment to its parent
C24_Witness ==
    \E ur \in user_roles :
        /\ ur.role = "child_role"
        /\ roles["child_role"].parent_role = "tenant_admin"
        /\ ~\E o \in user_roles : o.user = ur.user /\ o.role = "tenant_admin"

----------------------------------------------------------------------------
(* C25 *)

\* C25: a UserRole that a non-superuser creates through the user-roles
\* create endpoint links a user of the caller's tenant to a role of the
\* caller's tenant, never a user or a role of another tenant and never a
\* system role.
C25_NoCrossTenantGrant ==
    [][\A caller \in Users, u \in Users, r \in DOMAIN roles,
          e \in ExpiryChoices :
          (~is_superuser(caller) /\ UserRoleCreate(caller, u, r, e)) =>
              /\ UserTenant(u) = UserTenant(caller)
              /\ roles[r].tenant = UserTenant(caller)
              /\ roles[r].role_type # "system"]_vars

----------------------------------------------------------------------------
(* C26 *)

\* C26: a request of a non-superuser tenant administrator to TenantViewSet
\* leaves the is_active flag and the fields of every tenant other than the
\* caller's own unchanged.
C26_TenantRecordsIsolated ==
    [][\A caller \in Users, t \in DOMAIN tenants, active \in BOOLEAN :
          (~is_superuser(caller) /\ TenantSetActive(caller, t, active)) =>
              \A other \in DOMAIN tenants \ {UserTenant(caller)} :
                  tenants'[other] = tenants[other]]_vars

----------------------------------------------------------------------------
(* C27 *)

CrudActions == {"list", "retrieve", "create", "update", "partial_update",
                "destroy"}

\* the caller's permissions are at most the view permission of the resource
\* of the view
HoldsViewOnly(u, view) ==
    \A p \in DOMAIN permissions :
        has_permission(u, p) =>
            p = view.app_label \o ".view_" \o view.model_name

\* C27: on a view action outside list, retrieve, create, update,
\* partial_update and destroy that changes state, HasPermission() does not
\* allow a non-superuser whose only permission on the resource is the view
\* permission.
C27_ViewNeverAuthorizesWrite ==
    ( /\ response.call = "has_permission"
      /\ response.gate = Gate("HasPermission", None)
      /\ ~is_superuser(response.user)
      /\ response.view.action \notin CrudActions
      /\ response.view.method \notin SAFE_METHODS
      /\ HoldsViewOnly(response.user, response.view) )
    => response.result # Return(TRUE)

----------------------------------------------------------------------------
(* C28 *)

\* the RBAC setup step of the registration of t has run: the tenant is
\* registered and no setup task for it is queued
SetupHasRun(t) ==
    /\ t \in DOMAIN tenants
    /\ ~\E i \in DOMAIN inflight : inflight[i].target = t

\* the admin user holds a valid assignment to a role named tenant_admin
HoldsTenantAdmin(u) ==
    \E ur \in user_roles :
        ur.user = u /\ ur.role = "tenant_admin" /\ UserRole_is_valid(ur)

\* C28: once a tenant is registered and its RBAC setup step (the task or
\* the synchronous fallback) has run, the tenant's admin user eventually
\* holds a valid tenant_admin assignment and passes the IsTenantAdmin gate.
C28_RegisteredAdminWorks ==
    \A t \in TenantIds :
        SetupHasRun(t) ~>
            (HoldsTenantAdmin(admin_user(t)) /\ IsTenantAdmin(admin_user(t)))

----------------------------------------------------------------------------
(* C29 *)

\* C29: in a request for which TenantMiddleware resolved tenant T,
\* get_current_tenant() returns T; whatever requests are in flight, it
\* never returns a tenant that was resolved for another request.
C29_RequestScopedTenant ==
    response.call = "get_current_tenant" =>
        /\ response.tenant \in DOMAIN tenants =>
              response.current_tenant = response.tenant
        /\ response.current_tenant \in {NoTenant, response.tenant}

----------------------------------------------------------------------------
(* C30 *)

\* the borrowings of book id that are still in status borrowed
Outstanding(id, rows) ==
    {b \in DOMAIN rows : rows[b].book = id /\ rows[b].status = "borrowed"}

\* available_copies = copies - outstanding borrowings, within 0..copies
CopiesAccounted(id, bks, rows) ==
    /\ bks[id].available_copies =
           bks[id].copies - Cardinality(Outstanding(id, rows))
    /\ bks[id].available_copies \in 0..bks[id].copies

\* C30: a borrow or return_book request keeps the copy accounting of every
\* book: when available_copies was copies minus the book's borrowings in
\* status borrowed before the request, it is so after it, and it stays
\* within 0..copies.
C30_CopyAccounting ==
    [][borrowings' # borrowings =>
          \A id \in BookIds :
              CopiesAccounted(id, books, borrowings) =>
                  CopiesAccounted(id, books', borrowings')]_vars

====
